---- MODULE Spec2Model ----
(***************************************************************************)
(* Model of the MCP server configuration resolver of test_mcp_server.py:   *)
(* the JSON structure validator, the ${VAR}/$VAR expander with its bounded *)
(* cross-reference loop, and the scoped server lifecycle of main().        *)
(*                                                                         *)
(* A Python str is a sequence of one-character strings.  A JSON value is a *)
(* record [t, s, n, l, d]: t is the type tag, s the text of a string, n    *)
(* the integer (or 0/1 for a bool), l the items of a list of strings and d *)
(* the mapping of a dict of strings.  An absent key is the value Absent.   *)
(***************************************************************************)
EXTENDS Integers, Sequences, FiniteSets, TLC

VARIABLES
    \* --- parse_mcp_servers_json ---
    json_ok,        \* the text is syntactically valid JSON
    root_ok,        \* the root is an object with an object under "mcpServers"
    mcp_servers,    \* the entries of "mcpServers", in document order
    environ,        \* os.environ
    idx,            \* number of entries the for loop has taken
    servers,        \* the dict being built: sequence of [name, params]
    pc,             \* "start" | "loop" | "returned" | "raised"
    err,            \* the ValueError raised: [at, code]
    result,         \* what the caller receives: [ok, value]
    \* --- _expand_env on one dict ---
    obj,            \* the argument
    expanded_config,
    resolved_env,
    passes,         \* iterations of "for _ in range(10)" entered so far
    final_config,
    epc,            \* "step1" | "loop" | "step4" | "done"
    \* --- main ---
    mpc,            \* "enter" | "run" | "unwind" | "exited"
    todo,           \* servers_params still to build and open
    stack,          \* AsyncExitStack: handles whose __aexit__ is registered
    opens,          \* per handle: number of completed __aenter__
    closes,         \* per handle: number of __aexit__ calls
    agent_ran,      \* Runner.run was called
    failed          \* an exception is propagating out of the with block

pvars == <<json_ok, root_ok, mcp_servers, idx, servers, pc, err, result>>
evars == <<obj, expanded_config, resolved_env, passes, final_config, epc>>
mvars == <<mpc, todo, stack, opens, closes, agent_ran, failed>>
vars == <<pvars, environ, evars, mvars>>

----------------------------------------------------------------------------
(* Characters and strings *)

Letters == {"a", "b", "c", "d", "e", "f", "g", "h", "i", "j", "k", "l", "m",
            "n", "o", "p", "q", "r", "s", "t", "u", "v", "w", "x", "y", "z",
            "A", "B", "C", "D", "E", "F", "G", "H", "I", "J", "K", "L", "M",
            "N", "O", "P", "Q", "R", "S", "T", "U", "V", "W", "X", "Y", "Z"}
Digits == {"0", "1", "2", "3", "4", "5", "6", "7", "8", "9"}

IdStart(c) == c \in Letters \cup {"_"}
IdChar(c) == IdStart(c) \/ c \in Digits

\* First position >= i whose character is not an identifier character.
RECURSIVE IdentEnd(_, _)
IdentEnd(s, i) == IF i <= Len(s) /\ IdChar(s[i]) THEN IdentEnd(s, i + 1) ELSE i

\* Position of the first "}" at or after i, or 0.
RECURSIVE FindClose(_, _)
FindClose(s, i) ==
    IF i > Len(s) THEN 0
    ELSE IF s[i] = "}" THEN i
    ELSE FindClose(s, i + 1)

NoMatch == [hit |-> FALSE, last |-> 0, name |-> <<>>]

\* The pattern \$\{([^}]+)\}|\$([A-Za-z_][A-Za-z0-9_]*) tried at position i.
PatternAt(s, i) ==
    IF s[i] # "$" \/ i = Len(s) THEN NoMatch
    ELSE LET close == FindClose(s, i + 2)
             stop == IdentEnd(s, i + 2)
         IN IF s[i + 1] = "{" /\ close > i + 2
            THEN [hit |-> TRUE, last |-> close, name |-> SubSeq(s, i + 2, close - 1)]
            ELSE IF IdStart(s[i + 1])
            THEN [hit |-> TRUE, last |-> stop - 1, name |-> SubSeq(s, i + 1, stop - 1)]
            ELSE NoMatch

\* replace_var: the variable's value, or the matched text when not found.
replace_var(s, i, m, variables) ==
    IF m.name \in DOMAIN variables THEN variables[m.name]
    ELSE SubSeq(s, i, m.last)

\* Position of the first match of the pattern at or after i, or 0.
NextMatch(s, i) ==
    LET hits == {j \in i..Len(s) : PatternAt(s, j).hit} IN
    IF hits = {} THEN 0 ELSE CHOOSE j \in hits : \A k \in hits : j <= k

\* re.sub from position i on: matches are replaced left to right, the text
\* between them is copied, and replacement text is not scanned again.
RECURSIVE SubFrom(_, _, _)
SubFrom(s, i, variables) ==
    LET j == NextMatch(s, i) IN
    IF j = 0 THEN SubSeq(s, i, Len(s))
    ELSE SubSeq(s, i, j - 1)
         \o replace_var(s, j, PatternAt(s, j), variables)
         \o SubFrom(s, PatternAt(s, j).last + 1, variables)

_expand_string_variables(text, variables) == SubFrom(text, 1, variables)

\* posixpath's pattern \$(\w+|\{[^}]*\}) (re.ASCII) tried at position i.
VarprogAt(s, i) ==
    IF s[i] # "$" \/ i = Len(s) THEN NoMatch
    ELSE LET close == FindClose(s, i + 2)
             stop == IdentEnd(s, i + 2)
         IN IF IdChar(s[i + 1])
            THEN [hit |-> TRUE, last |-> stop - 1, name |-> SubSeq(s, i + 1, stop - 1)]
            ELSE IF s[i + 1] = "{" /\ close > 0
            THEN [hit |-> TRUE, last |-> close, name |-> SubSeq(s, i + 2, close - 1)]
            ELSE NoMatch

\* Position of the first match of posixpath's pattern at or after i, or 0.
NextVar(s, i) ==
    LET hits == {j \in i..Len(s) : VarprogAt(s, j).hit} IN
    IF hits = {} THEN 0 ELSE CHOOSE j \in hits : \A k \in hits : j <= k

\* os.path.expandvars: a set variable is replaced and the search goes on after
\* the inserted value; an unset one is left as it is.
RECURSIVE ExpandvarsFrom(_, _, _)
ExpandvarsFrom(s, i, env) ==
    LET j == NextVar(s, i) IN
    IF j = 0 THEN SubSeq(s, i, Len(s))
    ELSE LET m == VarprogAt(s, j) IN
         SubSeq(s, i, j - 1)
         \o (IF m.name \in DOMAIN env THEN env[m.name] ELSE SubSeq(s, j, m.last))
         \o ExpandvarsFrom(s, m.last + 1, env)

expandvars(path, env) == ExpandvarsFrom(path, 1, env)

----------------------------------------------------------------------------
(* JSON values *)

NoDict == <<>>
Absent == [t |-> "absent", s |-> <<>>, n |-> 0, l |-> <<>>, d |-> NoDict]
JNull == [t |-> "null", s |-> <<>>, n |-> 0, l |-> <<>>, d |-> NoDict]
JBool(b) == [t |-> "bool", s |-> <<>>, n |-> IF b THEN 1 ELSE 0, l |-> <<>>, d |-> NoDict]
JInt(n) == [t |-> "int", s |-> <<>>, n |-> n, l |-> <<>>, d |-> NoDict]
JStr(s) == [t |-> "str", s |-> s, n |-> 0, l |-> <<>>, d |-> NoDict]
JList(l) == [t |-> "list", s |-> <<>>, n |-> 0, l |-> l, d |-> NoDict]
JDict(d) == [t |-> "dict", s |-> <<>>, n |-> 0, l |-> <<>>, d |-> d]

\* The keys a server object may carry; params[f] = Absent when f is missing.
Fields == {"command", "url", "type", "args", "headers", "env", "cwd",
           "enabled", "timeout"}

\* A server object with the given keys.
Desc(f) == [k \in Fields |-> IF k \in DOMAIN f THEN f[k] ELSE Absent]

\* _expand_with_env_vars on one value: strings, list items and dict values
\* are rewritten, everything else is returned as it is.
_expand_with_env_vars(v, env_vars) ==
    IF v.t = "str" THEN [v EXCEPT !.s = _expand_string_variables(v.s, env_vars)]
    ELSE IF v.t = "list"
    THEN [v EXCEPT !.l = [i \in DOMAIN v.l |->
                             _expand_string_variables(v.l[i], env_vars)]]
    ELSE IF v.t = "dict"
    THEN [v EXCEPT !.d = [k \in DOMAIN v.d |->
                             _expand_string_variables(v.d[k], env_vars)]]
    ELSE v

\* _expand_env on a value that is not the server object itself: a string goes
\* through os.path.expandvars, a list or a dict of strings element by element.
ExpandEnvValue(v, env) ==
    IF v.t = "str" THEN [v EXCEPT !.s = expandvars(v.s, env)]
    ELSE IF v.t = "list"
    THEN [v EXCEPT !.l = [i \in DOMAIN v.l |-> expandvars(v.l[i], env)]]
    ELSE IF v.t = "dict"
    THEN [v EXCEPT !.d = [k \in DOMAIN v.d |-> expandvars(v.d[k], env)]]
    ELSE v

\* Mutant: only the env field goes through the process environment.
SystemExpandEnvOnly(params, env) ==
    [f \in DOMAIN params |->
        IF f = "env" THEN ExpandEnvValue(params[f], env) ELSE params[f]]

\* Step 1 of _expand_env: every field through the process environment.
SystemExpand(params, env) == [f \in DOMAIN params |-> ExpandEnvValue(params[f], env)]

\* The iteration cap of the cross-reference loop, range(10).
MaxPasses == 10

\* One iteration of the loop body: every value of env against env itself.
CrossPass(env) == [k \in DOMAIN env |-> _expand_string_variables(env[k], env)]

\* The loop of step 3 from its n-th iteration on.
RECURSIVE CrossResolve(_, _)
CrossResolve(env, n) ==
    IF n >= MaxPasses THEN env
    ELSE LET next_env == CrossPass(env) IN
         IF next_env = env THEN env ELSE CrossResolve(next_env, n + 1)

\* Mutant: the other fields are expanded with the env field as it was before
\* the cross-reference loop.
ApplyUnresolved(config, env) ==
    [f \in DOMAIN config |->
        IF f = "env" THEN JDict(env)
        ELSE _expand_with_env_vars(config[f], config["env"].d)]

\* Step 4: env is replaced by the resolved map, every other field is expanded
\* with it.
ApplyResolved(config, env) ==
    [f \in DOMAIN config |->
        IF f = "env" THEN JDict(env) ELSE _expand_with_env_vars(config[f], env)]

\* _expand_env on a server object.
_expand_env(params, env) ==
    LET expanded == SystemExpand(params, env) IN
    IF expanded["env"].t # "dict" THEN expanded
    ELSE ApplyResolved(expanded, CrossResolve(expanded["env"].d, 0))

----------------------------------------------------------------------------
(* Structural validation *)

STDIO == <<"s", "t", "d", "i", "o">>
SSE == <<"s", "s", "e">>
STREAM == <<"s", "t", "r", "e", "a", "m">>
HTTP == <<"h", "t", "t", "p">>
STREAMABLE_HTTP == <<"s", "t", "r", "e", "a", "m", "a", "b", "l", "e", "-",
                     "h", "t", "t", "p">>

http_types == {SSE, STREAM, HTTP, STREAMABLE_HTTP}
allowed_types == {STDIO} \cup http_types

\* Python truth value of a JSON value (None, "", 0, False, [] and {} are false).
Truthy(v) ==
    \/ v.t = "str" /\ v.s # <<>>
    \/ v.t \in {"int", "bool"} /\ v.n # 0
    \/ v.t = "list" /\ v.l # <<>>
    \/ v.t = "dict" /\ DOMAIN v.d # {}

\* "x is None" for the result of params.get(key): the key is missing or null.
IsNone(v) == v.t \in {"absent", "null"}

\* server_type in <a set of strings>
TypeIn(v, types) == v.t = "str" /\ v.s \in types

\* Mutant: the url branch is tested before the command branch.
validate_url_before_command(params) ==
    LET server_type == params["type"] IN
    IF params["url"].t # "absent"
    THEN IF params["url"].t # "str"
         THEN "url_not_str"
         ELSE IF ~TypeIn(server_type, http_types)
         THEN "url_needs_http_type"
         ELSE "ok"
    ELSE IF params["command"].t # "absent"
    THEN IF ~IsNone(params["args"]) /\ params["args"].t # "list"
         THEN "args_not_list"
         ELSE IF Truthy(server_type) /\ server_type # JStr(STDIO)
         THEN "type_not_stdio"
         ELSE "ok"
    ELSE "needs_command_or_url"

\* validate_server_type_and_connection: the error it raises, or "ok".
validate_server_type_and_connection(params) ==
    LET server_type == params["type"] IN
    IF params["command"].t # "absent"
    THEN IF ~IsNone(params["args"]) /\ params["args"].t # "list"
         THEN "args_not_list"
         ELSE IF Truthy(server_type) /\ server_type # JStr(STDIO)
         THEN "type_not_stdio"
         ELSE IF Truthy(server_type) /\ ~TypeIn(server_type, allowed_types)
         THEN "unknown_type"
         ELSE "ok"
    ELSE IF params["url"].t # "absent"
    THEN IF params["url"].t # "str"
         THEN "url_not_str"
         ELSE IF ~TypeIn(server_type, http_types)
         THEN "url_needs_http_type"
         ELSE IF Truthy(server_type) /\ ~TypeIn(server_type, allowed_types)
         THEN "unknown_type"
         ELSE "ok"
    ELSE "needs_command_or_url"

\* Mutant: env is checked before headers.
validate_env_before_headers(params) ==
    IF params["env"].t \notin {"absent", "dict"} THEN "env_not_object"
    ELSE IF params["headers"].t \notin {"absent", "dict"} THEN "headers_not_object"
    ELSE IF params["cwd"].t \notin {"absent", "null", "str"} THEN "cwd_not_str"
    ELSE "ok"

\* validate_optional_fields: the error it raises, or "ok".
validate_optional_fields(params) ==
    IF params["headers"].t \notin {"absent", "dict"} THEN "headers_not_object"
    ELSE IF params["env"].t \notin {"absent", "dict"} THEN "env_not_object"
    ELSE IF params["cwd"].t \notin {"absent", "null", "str"} THEN "cwd_not_str"
    ELSE "ok"

\* Mutant: "not params.get("enabled", True)", any false value disables.
IsDisabledWhenFalsy(params) ==
    params["enabled"].t # "absent" /\ ~Truthy(params["enabled"])

\* params.get("enabled", True) is False
IsDisabled(params) == params["enabled"] = JBool(FALSE)

\* The body of the for loop of parse_mcp_servers_json on one entry: "skip"
\* for continue, "ok" when the entry is stored, else the error raised.
CheckEntry(e) ==
    IF ~e.isobj THEN "not_object"
    ELSE IF IsDisabled(e.params) THEN "skip"
    ELSE IF validate_server_type_and_connection(e.params) # "ok"
    THEN validate_server_type_and_connection(e.params)
    ELSE validate_optional_fields(e.params)

\* Mutant: the new entry is put in front of the earlier ones.
StoreServerInFront(svs, e, env) ==
    <<[name |-> e.name, params |-> _expand_env(e.params, env)]>> \o svs

\* servers[name] = _expand_env(params)
StoreServer(svs, e, env) ==
    Append(svs, [name |-> e.name, params |-> _expand_env(e.params, env)])

NoError == [at |-> 0, code |-> "none"]
NoResult == [ok |-> FALSE, value |-> <<>>]

\* load_json_configuration and validate_mcp_servers_structure.
LoadConfiguration ==
    /\ pc = "start"
    /\ IF ~json_ok
       THEN pc' = "raised" /\ err' = [at |-> 0, code |-> "invalid_json"]
       ELSE IF ~root_ok
       THEN pc' = "raised" /\ err' = [at |-> 0, code |-> "no_mcpServers_object"]
       ELSE pc' = "loop" /\ err' = err
    /\ UNCHANGED <<json_ok, root_ok, mcp_servers, idx, servers, result>>
    /\ UNCHANGED <<environ, evars, mvars>>

\* One iteration that ends in continue (the entry is disabled).
SkipDisabled ==
    /\ pc = "loop" /\ idx < Len(mcp_servers)
    /\ CheckEntry(mcp_servers[idx + 1]) = "skip"
    /\ idx' = idx + 1
    /\ UNCHANGED <<json_ok, root_ok, mcp_servers, servers, pc, err, result>>
    /\ UNCHANGED <<environ, evars, mvars>>

\* One iteration that validates, expands and stores the entry.
AcceptEntry ==
    /\ pc = "loop" /\ idx < Len(mcp_servers)
    /\ CheckEntry(mcp_servers[idx + 1]) = "ok"
    /\ idx' = idx + 1
    /\ servers' = StoreServer(servers, mcp_servers[idx + 1], environ)
    /\ UNCHANGED <<json_ok, root_ok, mcp_servers, pc, err, result>>
    /\ UNCHANGED <<environ, evars, mvars>>

\* One iteration in which a validator raises ValueError.
RejectEntry ==
    /\ pc = "loop" /\ idx < Len(mcp_servers)
    /\ CheckEntry(mcp_servers[idx + 1]) \notin {"ok", "skip"}
    /\ idx' = idx + 1
    /\ pc' = "raised"
    /\ err' = [at |-> idx + 1, code |-> CheckEntry(mcp_servers[idx + 1])]
    /\ UNCHANGED <<json_ok, root_ok, mcp_servers, servers, result>>
    /\ UNCHANGED <<environ, evars, mvars>>

\* After the loop: an empty dict raises, anything else is returned.
FinishParse ==
    /\ pc = "loop" /\ idx = Len(mcp_servers)
    /\ IF servers = <<>>
       THEN pc' = "raised" /\ err' = [at |-> 0, code |-> "no_enabled_servers"]
            /\ result' = result
       ELSE pc' = "returned" /\ err' = err
            /\ result' = [ok |-> TRUE, value |-> servers]
    /\ UNCHANGED <<json_ok, root_ok, mcp_servers, idx, servers>>
    /\ UNCHANGED <<environ, evars, mvars>>

----------------------------------------------------------------------------
(* _expand_env, one step at a time *)

\* Steps 1 and 2: process-environment expansion of every field, and the early
\* return when there is no env dict.
SystemExpandStep ==
    /\ epc = "step1"
    /\ LET expanded == SystemExpand(obj, environ) IN
       /\ expanded_config' = expanded
       /\ IF expanded["env"].t # "dict"
          THEN /\ final_config' = expanded
               /\ resolved_env' = resolved_env
               /\ epc' = "done"
          ELSE /\ final_config' = final_config
               /\ resolved_env' = expanded["env"].d
               /\ epc' = "loop"
    /\ UNCHANGED <<obj, passes>>
    /\ UNCHANGED <<pvars, environ, mvars>>

\* Mutant: "while True" instead of "for _ in range(10)".
CrossReferencePassNoCap ==
    /\ epc = "loop"
    /\ LET next_env == CrossPass(resolved_env) IN
       /\ resolved_env' = next_env
       /\ epc' = IF next_env = resolved_env THEN "step4" ELSE "loop"
    /\ passes' = passes + 1
    /\ UNCHANGED <<obj, expanded_config, final_config>>
    /\ UNCHANGED <<pvars, environ, mvars>>

\* One iteration of "for _ in range(10)": a pass, then break when nothing
\* changed; the loop also ends when the range is used up.
CrossReferencePass ==
    /\ epc = "loop" /\ passes < MaxPasses
    /\ LET next_env == CrossPass(resolved_env) IN
       /\ resolved_env' = next_env
       /\ epc' = IF next_env = resolved_env \/ passes + 1 = MaxPasses
                 THEN "step4" ELSE "loop"
    /\ passes' = passes + 1
    /\ UNCHANGED <<obj, expanded_config, final_config>>
    /\ UNCHANGED <<pvars, environ, mvars>>

\* Step 4 and the return.
ApplyResolvedStep ==
    /\ epc = "step4"
    /\ final_config' = ApplyResolved(expanded_config, resolved_env)
    /\ epc' = "done"
    /\ UNCHANGED <<obj, expanded_config, resolved_env, passes>>
    /\ UNCHANGED <<pvars, environ, mvars>>

----------------------------------------------------------------------------
(* Server builders and main *)

\* params.get("timeout", 30)
DefaultTimeout == 30

\* Mutant: the given timeout is ignored.
timeout_always_default(params) == JInt(DefaultTimeout)

client_session_timeout_seconds(params) ==
    IF params["timeout"].t = "absent" THEN JInt(DefaultTimeout) ELSE params["timeout"]

\* The key is copied only when its value is true.
IfTruthy(v) == IF Truthy(v) THEN v ELSE Absent

build_stdio_server(name, params) ==
    [name |-> name, class |-> "MCPServerStdio",
     params |-> Desc(("command" :> params["command"])
                     @@ ("args" :> IfTruthy(params["args"]))
                     @@ ("env" :> IfTruthy(params["env"]))
                     @@ ("cwd" :> IfTruthy(params["cwd"]))),
     timeout |-> client_session_timeout_seconds(params)]

build_sse_server(name, params) ==
    [name |-> name, class |-> "MCPServerSse",
     params |-> Desc(("url" :> params["url"])
                     @@ ("headers" :> IfTruthy(params["headers"]))),
     timeout |-> client_session_timeout_seconds(params)]

build_streamable_http_server(name, params) ==
    [name |-> name, class |-> "MCPServerStreamableHttp",
     params |-> Desc(("url" :> params["url"])
                     @@ ("headers" :> IfTruthy(params["headers"]))),
     timeout |-> client_session_timeout_seconds(params)]

build_server(name, params) ==
    IF params["command"].t # "absent" THEN build_stdio_server(name, params)
    ELSE IF params["type"] = JStr(SSE) THEN build_sse_server(name, params)
    ELSE build_streamable_http_server(name, params)

\* One iteration of the for loop of main: build_server, then
\* stack.enter_async_context, which registers __aexit__ once __aenter__ is done.
EnterServer ==
    /\ mpc = "enter" /\ todo # <<>>
    /\ LET h == build_server(Head(todo).name, Head(todo).params) IN
       /\ stack' = Append(stack, h)
       /\ opens' = [opens EXCEPT ![h.name] = @ + 1]
    /\ todo' = Tail(todo)
    /\ UNCHANGED <<mpc, closes, agent_ran, failed>>
    /\ UNCHANGED <<pvars, environ, evars>>

\* The same iteration when __aenter__ raises: nothing is registered and the
\* exception leaves the with block.
EnterServerFails ==
    /\ mpc = "enter" /\ todo # <<>>
    /\ failed' = TRUE
    /\ mpc' = "unwind"
    /\ UNCHANGED <<todo, stack, opens, closes, agent_ran>>
    /\ UNCHANGED <<pvars, environ, evars>>

\* Agent(...) and Runner.run, which may raise; then the with block is left.
RunAgent ==
    /\ mpc = "enter" /\ todo = <<>>
    /\ agent_ran' = TRUE
    /\ \E raises \in BOOLEAN : failed' = raises
    /\ mpc' = "unwind"
    /\ UNCHANGED <<todo, stack, opens, closes>>
    /\ UNCHANGED <<pvars, environ, evars>>

\* Mutant: an exit that raises ends the unwinding, the handles below it stay
\* open.
ExitServerStopsOnError ==
    /\ mpc = "unwind" /\ stack # <<>>
    /\ closes' = [closes EXCEPT ![stack[Len(stack)].name] = @ + 1]
    /\ \E raises \in BOOLEAN :
          /\ failed' = (failed \/ raises)
          /\ stack' = IF raises THEN <<>> ELSE SubSeq(stack, 1, Len(stack) - 1)
    /\ UNCHANGED <<mpc, todo, opens, agent_ran>>
    /\ UNCHANGED <<pvars, environ, evars>>

\* AsyncExitStack.__aexit__: the registered exits run last in, first out; one
\* that raises does not stop the others.
ExitServer ==
    /\ mpc = "unwind" /\ stack # <<>>
    /\ closes' = [closes EXCEPT ![stack[Len(stack)].name] = @ + 1]
    /\ stack' = SubSeq(stack, 1, Len(stack) - 1)
    /\ \E raises \in BOOLEAN : failed' = (failed \/ raises)
    /\ UNCHANGED <<mpc, todo, opens, agent_ran>>
    /\ UNCHANGED <<pvars, environ, evars>>

\* The with block is left once the stack is empty.
LeaveScope ==
    /\ mpc = "unwind" /\ stack = <<>>
    /\ mpc' = "exited"
    /\ UNCHANGED <<todo, stack, opens, closes, agent_ran, failed>>
    /\ UNCHANGED <<pvars, environ, evars>>

----------------------------------------------------------------------------
(* Inputs *)

\* Largest number of entries in "mcpServers".
MaxServers == 3

Names == <<"s1", "s2", "s3", "s4">>

NPX == <<"n", "p", "x">>
URL == <<"h", "t", "t", "p", ":", "/", "/", "x">>
BOGUS == <<"b", "o", "g", "u", "s">>
RefA == <<"$", "{", "A", "}">>
RefB == <<"$", "{", "B", "}">>
RefC == <<"$", "{", "C", "}">>
RefH == <<"$", "{", "H", "}">>

Stdio0 == Desc(("command" :> JStr(NPX)) @@ ("args" :> JList(<< <<"-", "y">> >>)))
Http0 == Desc(("url" :> JStr(URL)) @@ ("type" :> JStr(STREAM)))
Empty0 == Desc(<<>>)

TypeValues ==
    {Absent, JNull, JStr(<<>>), JInt(0), JBool(FALSE), JInt(1), JBool(TRUE),
     JStr(STDIO), JStr(SSE), JStr(STREAM), JStr(HTTP), JStr(STREAMABLE_HTTP),
     JStr(BOGUS)}
EnabledValues == {Absent, JBool(FALSE), JBool(TRUE), JInt(0), JNull}

\* command and url present or not, with every type value, enabled or disabled.
TypeMatrix ==
    {Desc(("command" :> c) @@ ("url" :> u) @@ ("type" :> t) @@ ("enabled" :> e)) :
        c \in {Absent, JStr(NPX)}, u \in {Absent, JStr(URL)},
        t \in TypeValues, e \in {Absent, JBool(FALSE)}}

\* Well-typed and ill-typed optional fields, alone and together.
OptionalMatrix ==
    {[b EXCEPT !["args"] = a, !["headers"] = h, !["env"] = ev, !["cwd"] = c,
               !["type"] = IF t = Absent THEN b["type"] ELSE t] :
        b \in {Stdio0, Http0},
        a \in {Absent, JStr(<<"x">>)},
        h \in {Absent, JInt(1)},
        ev \in {Absent, JStr(<<"x">>)},
        c \in {Absent, JInt(1)},
        t \in {Absent, JStr(BOGUS)}}

\* Every value of enabled on valid and on invalid objects.
EnabledMatrix ==
    {[b EXCEPT !["enabled"] = e] :
        b \in {Stdio0, Http0, Empty0, [Stdio0 EXCEPT !["args"] = JInt(1)],
               [Http0 EXCEPT !["type"] = Absent],
               [Stdio0 EXCEPT !["cwd"] = JList(<<>>)]},
        e \in EnabledValues}

\* Other accepted shapes, some with placeholders to expand.
Accepted ==
    {[Stdio0 EXCEPT !["args"] = JNull],
     [Stdio0 EXCEPT !["cwd"] = JNull, !["timeout"] = JInt(5)],
     [Http0 EXCEPT !["headers"] = JDict(<<"K">> :> RefH), !["timeout"] = JInt(5)],
     [Http0 EXCEPT !["url"] = JInt(1)],
     [Stdio0 EXCEPT !["env"] = JDict((<<"A">> :> <<"1">>) @@ (<<"B">> :> RefA \o <<"/", "x">>)),
                    !["cwd"] = JStr(RefB), !["args"] = JList(<< <<"$", "H">> >>)],
     [Stdio0 EXCEPT !["env"] = JDict((<<"A">> :> RefB) @@ (<<"B">> :> RefA)),
                    !["cwd"] = JStr(RefA \o <<"/">>)]}

Rich == TypeMatrix \cup OptionalMatrix \cup EnabledMatrix \cup Accepted

\* The shapes that fill the other positions of a document.
Common ==
    {[Http0 EXCEPT !["type"] = JStr(SSE)],
     Desc("enabled" :> JBool(FALSE)),
     [Stdio0 EXCEPT !["args"] = JStr(<<"x">>), !["headers"] = JInt(1)],
     [Stdio0 EXCEPT !["env"] = JDict(<<"A">> :> <<"1">>), !["cwd"] = JStr(RefA),
                    !["timeout"] = JInt(5)]}

\* A value of "mcpServers" entry: a server object, or something that is no object.
Entries(ds) == {[isobj |-> TRUE, params |-> d] : d \in ds}
                  \cup {[isobj |-> FALSE, params |-> Empty0]}

\* Documents of n entries, at most one of them outside Common.
Docs(n) ==
    LET common == [1..n -> Entries(Common)]
        varied == {[c EXCEPT ![i] = r] :
                      c \in common, i \in 1..n, r \in Entries(Rich)}
    IN {[i \in 1..n |-> [name |-> Names[i], isobj |-> d[i].isobj,
                          params |-> d[i].params]] : d \in common \cup varied}

SomeEnviron == (<<"H">> :> <<"/", "h">>) @@ (<<"A">> :> <<"p">>)
Environs == {<<>>, SomeEnviron}

\* Values of one env entry: at most one placeholder each.
EnvStrings ==
    {<<"1">>, RefA, RefB, RefC, RefH \o <<"/">>,
     <<"$", "$", "A">>, <<"{", "B", "}">>, <<"/">> \o RefC}

\* Largest number of keys in an env map.
MaxEnvKeys == 3

EnvKeyList == << <<"A">>, <<"B">>, <<"C">>, <<"H">> >>

EnvKeys == {EnvKeyList[i] : i \in {j \in DOMAIN EnvKeyList : j <= MaxEnvKeys}}

EnvDicts == UNION {[ks -> EnvStrings] : ks \in SUBSET EnvKeys}

\* cwd and args of the object given to _expand_env.
OtherFields ==
    {[cwd |-> JStr(RefA \o <<"/", "x">>), args |-> JList(<< <<"-", "y">>, <<"$", "B">> >>)],
     [cwd |-> JStr(<<"$", "$", "A">>), args |-> JList(<< RefC >>)],
     [cwd |-> JStr(RefH), args |-> JNull]}

ExpandObjs ==
    {[Stdio0 EXCEPT !["env"] = ev, !["cwd"] = o.cwd, !["args"] = o.args] :
        ev \in {JDict(d) : d \in EnvDicts} \cup {Absent, JStr(RefH)},
        o \in OtherFields}

----------------------------------------------------------------------------
(* Specifications *)

ParseIdle ==
    /\ json_ok = TRUE /\ root_ok = TRUE /\ mcp_servers = <<>>
    /\ idx = 0 /\ servers = <<>> /\ pc = "idle"
    /\ err = NoError /\ result = NoResult

ExpandIdle ==
    /\ obj = Empty0 /\ expanded_config = Empty0 /\ resolved_env = <<>>
    /\ passes = 0 /\ final_config = Empty0 /\ epc = "idle"

MainIdle ==
    /\ mpc = "idle" /\ todo = <<>> /\ stack = <<>>
    /\ opens = <<>> /\ closes = <<>> /\ agent_ran = FALSE /\ failed = FALSE

\* parse_mcp_servers_json on a document.
InitParse ==
    /\ \/ json_ok = FALSE /\ root_ok = FALSE /\ mcp_servers = <<>>
       \/ json_ok = TRUE /\ root_ok = FALSE /\ mcp_servers = <<>>
       \/ /\ json_ok = TRUE /\ root_ok = TRUE
          /\ \E n \in 0..MaxServers : mcp_servers \in Docs(n)
    /\ environ = SomeEnviron
    /\ idx = 0 /\ servers = <<>> /\ pc = "start"
    /\ err = NoError /\ result = NoResult
    /\ ExpandIdle /\ MainIdle

NextParse ==
    \/ LoadConfiguration
    \/ SkipDisabled
    \/ AcceptEntry
    \/ RejectEntry
    \/ FinishParse

SpecParse == InitParse /\ [][NextParse]_vars

\* _expand_env on one server object.
InitExpand ==
    /\ obj \in ExpandObjs
    /\ environ \in Environs
    /\ expanded_config = Empty0 /\ resolved_env = <<>>
    /\ passes = 0 /\ final_config = Empty0 /\ epc = "step1"
    /\ ParseIdle /\ MainIdle

NextExpand ==
    \/ SystemExpandStep
    \/ CrossReferencePass
    \/ ApplyResolvedStep

SpecExpand == InitExpand /\ [][NextExpand]_vars

\* The mappings parse_mcp_servers_json can hand to main.
ServerParams(n) ==
    {[i \in 1..n |-> [name |-> Names[i], params |-> _expand_env(p[i], <<>>)]] :
        p \in [1..n -> {d \in Common \cup Accepted :
                           CheckEntry([isobj |-> TRUE, params |-> d]) = "ok"}]}

NameSet == {Names[i] : i \in DOMAIN Names}

\* main, from the return of parse_mcp_servers_json on.
InitMain ==
    /\ json_ok = TRUE /\ root_ok = TRUE /\ mcp_servers = <<>> /\ idx = 0
    /\ \E n \in 1..MaxServers : servers \in ServerParams(n)
    /\ pc = "returned" /\ err = NoError
    /\ result = [ok |-> TRUE, value |-> servers]
    /\ environ = <<>>
    /\ ExpandIdle
    /\ mpc = "enter" /\ todo = servers /\ stack = <<>>
    /\ opens = [nm \in NameSet |-> 0] /\ closes = [nm \in NameSet |-> 0]
    /\ agent_ran = FALSE /\ failed = FALSE

NextMain ==
    \/ EnterServer
    \/ EnterServerFails
    \/ RunAgent
    \/ ExitServer
    \/ LeaveScope

SpecMain == InitMain /\ [][NextMain]_vars

----------------------------------------------------------------------------
(* Vocabulary of the properties of parse_mcp_servers_json *)

Has(params, f) == params[f].t # "absent"

\* enabled is the JSON literal false.
MarkedDisabled(e) == e.params["enabled"].t = "bool" /\ e.params["enabled"].n = 0

\* The schema rules an enabled server object breaks, each stated on its own.
Violations(params) ==
    {c \in {"args_not_list", "type_not_stdio", "url_not_str",
            "url_needs_http_type", "needs_command_or_url", "unknown_type",
            "headers_not_object", "env_not_object", "cwd_not_str"} :
        \/ c = "args_not_list" /\ Has(params, "command")
             /\ params["args"].t \notin {"absent", "null", "list"}
        \/ c = "type_not_stdio" /\ Has(params, "command")
             /\ Truthy(params["type"]) /\ params["type"] # JStr(STDIO)
        \/ c = "url_not_str" /\ ~Has(params, "command") /\ Has(params, "url")
             /\ params["url"].t # "str"
        \/ c = "url_needs_http_type" /\ ~Has(params, "command") /\ Has(params, "url")
             /\ ~(params["type"].t = "str" /\ params["type"].s \in http_types)
        \/ c = "needs_command_or_url" /\ ~Has(params, "command") /\ ~Has(params, "url")
        \/ c = "unknown_type" /\ Truthy(params["type"])
             /\ ~(params["type"].t = "str" /\ params["type"].s \in allowed_types)
        \/ c = "headers_not_object" /\ params["headers"].t \notin {"absent", "dict"}
        \/ c = "env_not_object" /\ params["env"].t \notin {"absent", "dict"}
        \/ c = "cwd_not_str" /\ params["cwd"].t \notin {"absent", "null", "str"}}

\* The order in which the validators make their checks.
CheckOrder ==
    <<"args_not_list", "type_not_stdio", "url_not_str", "url_needs_http_type",
      "needs_command_or_url", "unknown_type", "headers_not_object",
      "env_not_object", "cwd_not_str">>

FirstViolation(params) ==
    CheckOrder[CHOOSE i \in DOMAIN CheckOrder :
                  /\ CheckOrder[i] \in Violations(params)
                  /\ \A j \in 1..(i - 1) : CheckOrder[j] \notin Violations(params)]

\* An entry that makes the call fail.
Bad(e) == ~e.isobj \/ (~MarkedDisabled(e) /\ Violations(e.params) # {})

FirstError(e) == IF ~e.isobj THEN "not_object" ELSE FirstViolation(e.params)

BadPositions == {i \in DOMAIN mcp_servers : Bad(mcp_servers[i])}

FirstBad == CHOOSE i \in BadPositions : \A j \in BadPositions : i <= j

\* Names of the entries not marked enabled: false, in document order.
RECURSIVE EnabledNames(_)
EnabledNames(doc) ==
    IF doc = <<>> THEN <<>>
    ELSE (IF MarkedDisabled(Head(doc)) THEN <<>> ELSE <<Head(doc).name>>)
         \o EnabledNames(Tail(doc))

NamesOf(svs) == [j \in DOMAIN svs |-> svs[j].name]

Terminated == pc \in {"returned", "raised"}

\* Entry i raised the error of this call.
RaisedAt(i) == pc = "raised" /\ err.at = i

\* Entry i was stored in the dict under construction.
Stored(i) == \E j \in DOMAIN servers : servers[j].name = mcp_servers[i].name

EnabledObject(i) == mcp_servers[i].isobj /\ ~MarkedDisabled(mcp_servers[i])

Both(params) == Has(params, "command") /\ Has(params, "url")
Neither(params) == ~Has(params, "command") /\ ~Has(params, "url")

WithoutUrl(params) == [params EXCEPT !["url"] = Absent]

----------------------------------------------------------------------------
(* C1 *)

\* C1 as stated: every enabled descriptor the loop has taken that has both
\* command and url, or neither, made the call fail at that entry.
C1_BothOrNeitherRaises ==
    \A i \in 1..idx :
        (EnabledObject(i) /\ (Both(mcp_servers[i].params) \/ Neither(mcp_servers[i].params)))
            => RaisedAt(i)

\* C1 amended: a descriptor with neither command nor url fails with the
\* "needs command or url" error; a descriptor with both is handled as a
\* command-based one, its url being ignored: it is rejected or stored exactly
\* as the same descriptor without url would be; so every descriptor of the
\* returned mapping has command or url, and may have both.
C1_NeitherRaisesBothIsStdio ==
    /\ \A i \in 1..idx :
          LET params == mcp_servers[i].params IN
          EnabledObject(i) =>
             /\ Neither(params) => RaisedAt(i) /\ err.code = "needs_command_or_url"
             /\ Both(params) =>
                   IF Violations(WithoutUrl(params)) = {}
                   THEN ~RaisedAt(i) /\ Stored(i)
                   ELSE RaisedAt(i) /\ err.code = FirstViolation(WithoutUrl(params))
    /\ result.ok => \A j \in DOMAIN result.value : ~Neither(result.value[j].params)

\* A mapping is returned that holds a descriptor with both command and url.
C1_Witness ==
    /\ pc = "returned"
    /\ \E j \in DOMAIN result.value : Both(result.value[j].params)

----------------------------------------------------------------------------
(* C3 *)

InputOf(name) == CHOOSE i \in DOMAIN mcp_servers : mcp_servers[i].name = name

\* C3 as stated: every descriptor of the returned mapping has a timeout, the
\* given one or 30.
C3_TimeoutDefaultedInMapping ==
    pc = "returned" =>
        \A j \in DOMAIN result.value :
            LET given == mcp_servers[InputOf(result.value[j].name)].params["timeout"] IN
            result.value[j].params["timeout"] = IF given.t = "absent" THEN JInt(30) ELSE given

\* C3 amended: a descriptor of the returned mapping has a timeout exactly when
\* its input has one, with the same integer; the default of 30 is applied by
\* the server builder, whose client_session_timeout_seconds is the given
\* timeout, or 30 when the descriptor has none.
C3_TimeoutDefaultedByBuilder ==
    pc = "returned" =>
        \A j \in DOMAIN result.value :
            LET given == mcp_servers[InputOf(result.value[j].name)].params["timeout"] IN
            /\ result.value[j].params["timeout"] = given
            /\ build_server(result.value[j].name, result.value[j].params).timeout
                  = IF given.t = "absent" THEN JInt(30) ELSE given

\* A returned mapping with one descriptor without timeout and one with it.
C3_Witness ==
    /\ pc = "returned"
    /\ \E j, k \in DOMAIN result.value :
          /\ result.value[j].params["timeout"] = Absent
          /\ result.value[k].params["timeout"] = JInt(5)

----------------------------------------------------------------------------
(* C4 *)

\* A type value is given: the key is there and is not null.
TypeGiven(params) == params["type"].t \notin {"absent", "null"}

\* C4: a stored descriptor with a given type has one of the five allowed
\* types, and a stored command-based descriptor has no type or "stdio".
C4_GivenTypeIsAllowed ==
    \A i \in 1..idx :
        LET params == mcp_servers[i].params IN
        (EnabledObject(i) /\ Stored(i) /\ TypeGiven(params)) =>
            /\ params["type"].t = "str" /\ params["type"].s \in allowed_types
            /\ Has(params, "command") => params["type"] = JStr(STDIO)

----------------------------------------------------------------------------
(* C5 *)

WellFormedDocument ==
    /\ json_ok /\ root_ok
    /\ \A i \in DOMAIN mcp_servers : ~Bad(mcp_servers[i])

\* C5: on a document whose enabled entries are all well-formed the call
\* returns the enabled names in document order, or, when there is none, fails
\* with "no enabled servers".
C5_EnabledNamesInOrder ==
    (WellFormedDocument /\ Terminated) =>
        IF EnabledNames(mcp_servers) = <<>>
        THEN pc = "raised" /\ err.code = "no_enabled_servers" /\ ~result.ok
        ELSE /\ pc = "returned" /\ result.ok
             /\ NamesOf(result.value) = EnabledNames(mcp_servers)

\* A disabled entry between two enabled ones.
C5_Witness ==
    /\ WellFormedDocument /\ pc = "returned"
    /\ Len(mcp_servers) = 3 /\ Len(result.value) = 2
    /\ MarkedDisabled(mcp_servers[2])

----------------------------------------------------------------------------
(* C6 *)

\* C6: the call fails at the first bad entry with that entry's first failing
\* check, the loop goes no further, and the caller gets a mapping only when
\* no entry is bad, and then the whole of it.
C6_FirstErrorNoPartialResult ==
    /\ (pc = "raised" /\ err.at > 0) =>
          /\ BadPositions # {} /\ err.at = FirstBad
          /\ err.code = FirstError(mcp_servers[err.at])
          /\ idx = err.at
    /\ pc = "raised" => ~result.ok /\ result.value = <<>>
    /\ (pc = "loop" /\ BadPositions # {}) => idx < FirstBad
    /\ (BadPositions # {}) => Len(servers) < FirstBad /\ ~result.ok
    /\ result.ok =>
          /\ pc = "returned" /\ BadPositions = {}
          /\ Len(result.value) = Len(EnabledNames(mcp_servers))

\* The first entry was stored, the second breaks two rules and raised, and the
\* third, bad as well, was never reached.
C6_Witness ==
    /\ pc = "raised" /\ err.at = 2 /\ Len(servers) = 1
    /\ Cardinality(Violations(mcp_servers[2].params)) >= 2
    /\ Len(mcp_servers) = 3 /\ Bad(mcp_servers[3])

----------------------------------------------------------------------------
(* C7 *)

\* C7: an object with enabled literally false is neither checked nor stored;
\* with any other value of enabled it is checked in full.
C7_OnlyLiteralFalseDisables ==
    \A i \in 1..idx :
        LET e == mcp_servers[i] IN
        e.isobj =>
            IF e.params["enabled"] = JBool(FALSE)
            THEN ~RaisedAt(i) /\ ~Stored(i)
            ELSE IF Violations(e.params) # {} THEN RaisedAt(i) ELSE Stored(i)

\* A disabled object that breaks a rule was passed over, and an object with
\* enabled: 0 or null was stored.
C7_Witness ==
    /\ pc = "returned" /\ Len(mcp_servers) = 2
    /\ MarkedDisabled(mcp_servers[1]) /\ Violations(mcp_servers[1].params) # {}
    /\ mcp_servers[2].params["enabled"] \in {JInt(0), JNull}

----------------------------------------------------------------------------
(* Vocabulary of the properties of _expand_env *)

\* Names of the placeholders re.sub finds in s from position i on.
RECURSIVE ScanNames(_, _)
ScanNames(s, i) ==
    LET j == NextMatch(s, i) IN
    IF j = 0 THEN {}
    ELSE {PatternAt(s, j).name} \cup ScanNames(s, PatternAt(s, j).last + 1)

HasPlaceholder(s) == \E i \in 1..Len(s) : PatternAt(s, i).hit

\* The keys of env that the value of key k refers to.
Refs(env, k) == ScanNames(env[k], 1) \cap DOMAIN env

RECURSIVE ReachWithin(_, _, _)
ReachWithin(env, ks, n) ==
    IF n = 0 THEN ks
    ELSE ReachWithin(env, ks \cup UNION {Refs(env, k) : k \in ks}, n - 1)

\* The keys reached from k along one reference or more.
Reach(env, k) == ReachWithin(env, Refs(env, k), Cardinality(DOMAIN env))

CycleKeys(env) == {k \in DOMAIN env : k \in Reach(env, k)}

\* The keys on a cycle through k.
SameCycle(env, k) == {k2 \in Reach(env, k) : k \in Reach(env, k2)}

Acyclic(env) == CycleKeys(env) = {}

\* The env field as the cross-reference loop receives it.
LoopInput == expanded_config["env"].d

LoopLeft == epc \in {"step4", "done"} /\ expanded_config["env"].t = "dict"

\* Every "$" of s opens a braced placeholder whose name holds no "$".
Braced(s) ==
    \A i \in 1..Len(s) :
        s[i] = "$" =>
            /\ i < Len(s) /\ s[i + 1] = "{"
            /\ PatternAt(s, i).hit
            /\ \A j \in DOMAIN PatternAt(s, i).name : PatternAt(s, i).name[j] # "$"

\* s with every reference to a key of env replaced by that key's value, itself
\* expanded in the same way (defined when env is acyclic).
RECURSIVE DeepFrom(_, _, _)
DeepFrom(env, s, i) ==
    LET j == NextMatch(s, i) IN
    IF j = 0 THEN SubSeq(s, i, Len(s))
    ELSE LET m == PatternAt(s, j) IN
         SubSeq(s, i, j - 1)
         \o (IF m.name \in DOMAIN env THEN DeepFrom(env, env[m.name], 1)
              ELSE SubSeq(s, j, m.last))
         \o DeepFrom(env, s, m.last + 1)

\* The string fields and list items outside env: [f, i], i = 0 for a string.
TextSlots(config) ==
    {[f |-> f, i |-> 0] : f \in {g \in Fields \ {"env"} : config[g].t = "str"}}
    \cup UNION {{[f |-> f, i |-> i] : i \in DOMAIN config[f].l} :
                  f \in {g \in Fields \ {"env"} : config[g].t = "list"}}

TextAt(config, slot) ==
    IF slot.i = 0 THEN config[slot.f].s ELSE config[slot.f].l[slot.i]

\* first wins over second where both have the name.
Merge(first, second) ==
    [n \in DOMAIN first \cup DOMAIN second |->
        IF n \in DOMAIN first THEN first[n] ELSE second[n]]

\* The text holds a placeholder whose name is set in the process environment
\* and is a key of env.
NamesShadowed(text) ==
    ScanNames(text, 1) \cap DOMAIN environ \cap DOMAIN obj["env"].d # {}

----------------------------------------------------------------------------
(* C2 *)

----------------------------------------------------------------------------
(* C8 *)

----------------------------------------------------------------------------
(* C9 *)

NoKeyReference(env, s) == ScanNames(s, 1) \cap DOMAIN env = {}

\* C9 as stated: when the references between the keys of env are acyclic, the
\* loop ends on a fixed point, no resolved value holds a placeholder that
\* names a key of env, and every other field has its references to keys
\* replaced by the resolved values.
C9_AcyclicIsResolved ==
    (LoopLeft /\ Acyclic(LoopInput)) =>
        /\ CrossPass(resolved_env) = resolved_env
        /\ \A k \in DOMAIN resolved_env : NoKeyReference(resolved_env, resolved_env[k])
        /\ epc = "done" =>
              \A slot \in TextSlots(final_config) :
                  TextAt(final_config, slot) =
                      _expand_string_variables(TextAt(expanded_config, slot), resolved_env)

\* C9 amended: when the references are acyclic and every "$" of the env
\* values opens a braced placeholder ${NAME}, the loop ends on a fixed point
\* in which every value is its full expansion and names no key of env; and
\* every other string of the descriptor built in the same way comes out fully
\* expanded too.
C9_AcyclicBracedIsResolved ==
    (LoopLeft /\ Acyclic(LoopInput) /\ \A k \in DOMAIN LoopInput : Braced(LoopInput[k])) =>
        /\ CrossPass(resolved_env) = resolved_env
        /\ \A k \in DOMAIN resolved_env :
              /\ NoKeyReference(resolved_env, resolved_env[k])
              /\ resolved_env[k] = DeepFrom(LoopInput, LoopInput[k], 1)
        /\ epc = "done" =>
              \A slot \in TextSlots(final_config) :
                  Braced(TextAt(expanded_config, slot)) =>
                      /\ NoKeyReference(resolved_env, TextAt(final_config, slot))
                      /\ TextAt(final_config, slot)
                            = DeepFrom(LoopInput, TextAt(expanded_config, slot), 1)

\* A chain A -> B -> C = "1" took more than one pass, and cwd = "${A}/x" came
\* out as "1/x".
C9_Witness ==
    /\ epc = "done" /\ LoopLeft /\ Acyclic(LoopInput)
    /\ \A k \in DOMAIN LoopInput : Braced(LoopInput[k])
    /\ \E k \in DOMAIN LoopInput : Refs(LoopInput, k) # {} /\
          \E k2 \in Refs(LoopInput, k) : Refs(LoopInput, k2) # {}
    /\ passes >= 3
    /\ obj["cwd"] = JStr(RefA \o <<"/", "x">>)
    /\ final_config["cwd"] = JStr(<<"1", "/", "x">>)

----------------------------------------------------------------------------
(* C10 *)

\* Names of the servers main has taken from servers_params so far.
Taken == [j \in 1..(Len(servers) - Len(todo)) |-> servers[j].name]

\* C10: the servers are opened one at a time in mapping order, the agent runs
\* only once all of them are open, no handle is ever opened or closed twice,
\* and once the with block is left every handle that was opened has been
\* closed exactly once and none is left on the stack.
C10_OpenedHandlesClosedOnce ==
    /\ mpc = "enter" => NamesOf(stack) = Taken
    /\ agent_ran =>
          /\ todo = <<>>
          /\ \A j \in DOMAIN servers : opens[servers[j].name] = 1
    /\ \A nm \in NameSet : closes[nm] <= opens[nm] /\ opens[nm] <= 1
    /\ \A nm \in NameSet :
          (opens[nm] = 1 /\ closes[nm] = 0) <=> (\E j \in DOMAIN stack : stack[j].name = nm)
    /\ mpc = "exited" =>
          /\ stack = <<>>
          /\ \A nm \in NameSet : closes[nm] = opens[nm]

\* Opening a later server failed after two were open, an exit raised as well,
\* and both handles were closed.
C10_Witness ==
    /\ mpc = "exited" /\ failed /\ ~agent_ran
    /\ todo # <<>>
    /\ Cardinality({nm \in NameSet : opens[nm] = 1 /\ closes[nm] = 1}) = 2

====
